---------------------------- MODULE Spec2Model ----------------------------
(***************************************************************************)
(* Model of the call-transcription relay servers of server-wb.             *)
(*                                                                         *)
(*   src/unnamed/part_000  dual-track Deepgram relay that aggregates final *)
(*                         results into speaker turns and saves them       *)
(*   src/unnamed/part_003  dual-track Deepgram relay that broadcasts       *)
(*                         results to registered transcript clients        *)
(*   src/server.js         single-track AssemblyAI relay                   *)
(*   src/unnamed/part_002  TranscriptionServer, one Deepgram connection    *)
(*                         per call, results sent back on the transport    *)
(*                                                                         *)
(* Node runs every event handler to completion, so each handler is one     *)
(* atomic action.  Strings the code inspects (call SIDs, map keys,         *)
(* transcripts) are sequences of one-character strings, so that            *)
(* startsWith, trim and concatenation are computed as the code computes    *)
(* them.                                                                   *)
(***************************************************************************)
EXTENDS Integers, Sequences, FiniteSets, TLC

VARIABLES
    conversationBuffers,  \* part_000:40  callSid -> [currentSpeaker, buffer]
    supabase,             \* part_000:45  rows handed to supabase insert, in call order
    nFinals,              \* number of finals given to the aggregator on its own
    absorbed,             \* history: finals given to a call's aggregator since its last flush
    mark,                 \* history: number of the call's rows when that sequence began
    flushStreak,          \* history: flushes of the call since its last absorbed final (capped at 2)
    flushEmits,           \* history: flushes of the call that emitted a turn since the last
                          \* start message for the call (capped at 2)
    insertOutcome,        \* part_000:45-61  row number -> how the awaited insert of the
                          \* row ended, for the rows whose insert has ended
    ws,                   \* per transport connection: readyState, req.trackType and the
                          \* closure variables callSid, deepgramConnection (part_000:183-188)
    connections,          \* part_000:37   connectionKey -> connection info
    dg,                   \* the recognizer sockets made by createDeepgramConnection, in
                          \* creation order: readyState, isDeepgramOpen, audioQueue and what
                          \* the recognizer has received
    transcriptClients,    \* part_003:42   callSid -> Set of client sockets, in insertion order
    client,               \* per transcript client: readyState, the closure variable
                          \* clientCallSid (part_003:263) and the events sent to it
    nPublish,             \* history: number of broadcastTranscript calls made on their own
    lastPublish,          \* history: the last of them
    thrown,               \* history: the clients whose send threw in the last stop
                          \* branch, close handler or recognizer message of part_003
    relay,                \* src/server.js:21-59  one transport connection of the AssemblyAI
                          \* relay: its socket, the token request, assemblyWs and the
                          \* closure variables callSid, isAssemblyOpen, audioQueue
    callSessions,         \* part_002:11  callSid -> number of the session object stored
    sessions,             \* part_002:30-34  the session objects made so far: callSid, ws,
                          \* transcriptBuffer, deepgramConnection
    tws,                  \* part_002:19  per transport connection of TranscriptionServer:
                          \* readyState, its callSid and the events sent to it
    tdg,                  \* part_002:83  the recognizer sockets made by connectToDeepgram
    early                 \* history: the transport connection of part_000 that handled a
                          \* stop or media message in the last step before any start
                          \* message, and which of the two

aggVars == <<conversationBuffers, supabase, nFinals, absorbed, mark, flushStreak, flushEmits,
             insertOutcome>>

srvVars == <<ws, connections, dg>>

castVars == <<transcriptClients, client, nPublish, lastPublish>>

relayVars == <<relay>>

tsVars == <<callSessions, sessions, tws, tdg>>

\* the servers of src/server.js and part_002 share no state with the others
otherVars == <<relayVars, tsVars>>

vars == <<aggVars, srvVars, castVars, thrown, otherVars, early>>

----------------------------------------------------------------------------
(* Bounds *)

MaxResults == 2

MaxFinals == 3

MaxMedia == 2

MaxSockets == 2

MaxPublish == 2

\* broadcasts of results drawn together with the transport events
MaxBroadcast == 1

MaxInbox == 2

----------------------------------------------------------------------------
(* Strings *)

SP == " "

\* JS null where a call SID is expected; the model draws no empty call SID.
NULL == <<>>

\* JS undefined where a call SID is expected: msg.start.callSid of a start
\* message that has none
UNDEFINED == <<"undefined">>

\* if (callSid && ...)
Truthy(callSid) == callSid # NULL /\ callSid # UNDEFINED

\* currentSpeaker: null (part_000:69); stream labels are never this string.
NoSpeaker == "null"

CallSids == { <<"A">>, <<"A", "B">> }

Speakers == { "CALLER", "CALLEE" }

\* result.transcript values that pass the truthiness test of part_000:151
Transcripts == { <<"a">>, <<"b">>, <<SP>> }

RECURSIVE trimStart(_)
trimStart(s) == IF s # <<>> /\ Head(s) = SP THEN trimStart(Tail(s)) ELSE s

RECURSIVE trimEnd(_)
trimEnd(s) ==
    IF s # <<>> /\ s[Len(s)] = SP THEN trimEnd(SubSeq(s, 1, Len(s) - 1)) ELSE s

trim(s) == trimEnd(trimStart(s))

startsWith(s, p) == Len(p) <= Len(s) /\ SubSeq(s, 1, Len(p)) = p

\* Map.delete
MapDelete(m, k) == [x \in DOMAIN m \ {k} |-> m[x]]

\* Map.set
MapSet(m, k, v) == [x \in DOMAIN m \cup {k} |-> IF x = k THEN v ELSE m[x]]

EmptyMap == [x \in {} |-> 0]

----------------------------------------------------------------------------
(* part_000: turn aggregation *)

\* The insert is issued synchronously, before the first await; its outcome is
\* only logged.
saveTranscriptToSupabase(sv, callSid, speaker, transcript) ==
    Append(sv, [call_sid |-> callSid, speaker |-> speaker,
                transcript |-> trim(transcript)])

\* lastActivity is written and never read; it is left out.
NewConversation == [currentSpeaker |-> NoSpeaker, buffer |-> <<>>]

Mut_handleConversationTurn_NoSaveOnChange(cb, sv, callSid, currentSpeaker, transcript) ==
    LET cb1 == IF callSid \in DOMAIN cb THEN cb
               ELSE MapSet(cb, callSid, NewConversation)
        conversation == cb1[callSid]
    IN  IF conversation.currentSpeaker # currentSpeaker
        THEN [cb |-> [cb1 EXCEPT ![callSid] =
                        [currentSpeaker |-> currentSpeaker,
                         buffer |-> transcript \o <<SP>>]],
              sv |-> sv]
        ELSE [cb |-> [cb1 EXCEPT ![callSid].buffer = @ \o transcript \o <<SP>>],
              sv |-> sv]

\* a speaker change that saves the previous turn and keeps its text in the
\* buffer
Mut_handleConversationTurn_KeepsBuffer(cb, sv, callSid, currentSpeaker, transcript) ==
    LET cb1 == IF callSid \in DOMAIN cb THEN cb
               ELSE MapSet(cb, callSid, NewConversation)
        conversation == cb1[callSid]
    IN  IF conversation.currentSpeaker # currentSpeaker
        THEN [cb |-> [cb1 EXCEPT ![callSid] =
                        [currentSpeaker |-> currentSpeaker,
                         buffer |-> conversation.buffer \o transcript \o <<SP>>]],
              sv |-> IF conversation.currentSpeaker # NoSpeaker
                        /\ trim(conversation.buffer) # <<>>
                     THEN saveTranscriptToSupabase(sv, callSid,
                              conversation.currentSpeaker, conversation.buffer)
                     ELSE sv]
        ELSE [cb |-> [cb1 EXCEPT ![callSid].buffer = @ \o transcript \o <<SP>>],
              sv |-> sv]

handleConversationTurn(cb, sv, callSid, currentSpeaker, transcript) ==
    LET cb1 == IF callSid \in DOMAIN cb THEN cb
               ELSE MapSet(cb, callSid, NewConversation)
        conversation == cb1[callSid]
    IN  IF conversation.currentSpeaker # currentSpeaker
        THEN [cb |-> [cb1 EXCEPT ![callSid] =
                        [currentSpeaker |-> currentSpeaker,
                         buffer |-> transcript \o <<SP>>]],
              sv |-> IF conversation.currentSpeaker # NoSpeaker
                        /\ trim(conversation.buffer) # <<>>
                     THEN saveTranscriptToSupabase(sv, callSid,
                              conversation.currentSpeaker, conversation.buffer)
                     ELSE sv]
        ELSE [cb |-> [cb1 EXCEPT ![callSid].buffer = @ \o transcript \o <<SP>>],
              sv |-> sv]

Mut_flushConversation_NoDelete(cb, sv, callSid) ==
    IF callSid \in DOMAIN cb
    THEN LET conversation == cb[callSid]
         IN  [cb |-> cb,
              sv |-> IF conversation.currentSpeaker # NoSpeaker
                        /\ trim(conversation.buffer) # <<>>
                     THEN saveTranscriptToSupabase(sv, callSid,
                              conversation.currentSpeaker, conversation.buffer)
                     ELSE sv]
    ELSE [cb |-> cb, sv |-> sv]

\* a flush that does not test the buffer for text
Mut_flushConversation_NoBlankTest(cb, sv, callSid) ==
    IF callSid \in DOMAIN cb
    THEN LET conversation == cb[callSid]
         IN  [cb |-> MapDelete(cb, callSid),
              sv |-> IF conversation.currentSpeaker # NoSpeaker
                     THEN saveTranscriptToSupabase(sv, callSid,
                              conversation.currentSpeaker, conversation.buffer)
                     ELSE sv]
    ELSE [cb |-> cb, sv |-> sv]

flushConversation(cb, sv, callSid) ==
    IF callSid \in DOMAIN cb
    THEN LET conversation == cb[callSid]
         IN  [cb |-> MapDelete(cb, callSid),
              sv |-> IF conversation.currentSpeaker # NoSpeaker
                        /\ trim(conversation.buffer) # <<>>
                     THEN saveTranscriptToSupabase(sv, callSid,
                              conversation.currentSpeaker, conversation.buffer)
                     ELSE sv]
    ELSE [cb |-> cb, sv |-> sv]

----------------------------------------------------------------------------
(* part_000 / part_003: transport connections and recognizer sockets.      *)
(* The two files hold the same code for what this section models; the line *)
(* numbers are those of part_000.                                          *)

Conns == { "w1", "w2" }

Pathnames == { "/inbound", "/outbound" }

\* verifyClient
trackTypeOf(pathname) ==
    IF pathname = "/inbound" THEN "inbound_track"
    ELSE IF pathname = "/outbound" THEN "outbound_track"
    ELSE "unknown"

streamLabelOf(trackType) ==
    IF trackType = "inbound_track" THEN "CALLER"
    ELSE IF trackType = "outbound_track" THEN "CALLEE"
    ELSE "UNKNOWN-unknown"

\* msg.media.payload and what Buffer.from(payload, 'base64') makes of it
Payloads == { "QQ==", "Qg==" }

base64Decode(payload) ==
    IF payload = "QQ==" THEN <<65>> ELSE IF payload = "Qg==" THEN <<66>> ELSE <<>>

\* a value interpolated into a template literal, or passed to startsWith
toString(callSid) ==
    IF callSid = NULL THEN <<"n", "u", "l", "l">>
    ELSE IF callSid = UNDEFINED THEN <<"u", "n", "d", "e", "f", "i", "n", "e", "d">>
    ELSE callSid

\* a registry keyed by the track alone
Mut_connectionKey_TrackOnly(callSid, trackType) == <<"-", trackType>>

\* `${callSid}-${trackType}`; the track type is kept as one token
connectionKey(callSid, trackType) == toString(callSid) \o <<"-", trackType>>

\* Array.from(connections.keys()).filter(key => key.startsWith(callSid))
remainingConnections(conns, callSid) ==
    { key \in DOMAIN conns : startsWith(key, toString(callSid)) }

NoConnection == 0

\* new WebSocket(deepgramUrl, ...); isDeepgramOpen = false; audioQueue = []
\* sent is what the recognizer has received.  History: recv, the frames the
\* media branch handed to this connection; owner, the transport connection
\* that made it; drained, the number of frames the open handler sent; finals,
\* the number of final results with text it delivered; stopped, whether its
\* owner has handled a stop message or closed since.
createDeepgramConnection(label, callSid, trackType, owner) ==
    [ readyState |-> "CONNECTING", isDeepgramOpen |-> FALSE, audioQueue |-> <<>>,
      label |-> label, callSid |-> callSid, trackType |-> trackType,
      sent |-> <<>>, recv |-> <<>>, owner |-> owner,
      drained |-> 0, finals |-> 0, stopped |-> FALSE ]

\* an open handler that takes the queued frames from the end of the queue
RECURSIVE Mut_drainAudioQueue_Pop(_)
Mut_drainAudioQueue_Pop(d) ==
    IF Len(d.audioQueue) > 0
    THEN LET audioData == d.audioQueue[Len(d.audioQueue)]
             d1 == [d EXCEPT !.audioQueue = SubSeq(@, 1, Len(@) - 1)]
         IN  Mut_drainAudioQueue_Pop(IF d1.readyState = "OPEN"
                                     THEN [d1 EXCEPT !.sent = Append(@, audioData)]
                                     ELSE d1)
    ELSE d

\* the loop of the open handler: shift each queued frame and send it if the
\* socket is open
RECURSIVE drainAudioQueue(_)
drainAudioQueue(d) ==
    IF Len(d.audioQueue) > 0
    THEN LET audioData == Head(d.audioQueue)
             d1 == [d EXCEPT !.audioQueue = Tail(@)]
         IN  drainAudioQueue(IF d1.readyState = "OPEN"
                             THEN [d1 EXCEPT !.sent = Append(@, audioData)]
                             ELSE d1)
    ELSE d

\* if (x.deepgramWs.readyState === WebSocket.OPEN) x.deepgramWs.close()
closeIfOpen(d, s) ==
    IF s # NoConnection /\ d[s].readyState = "OPEN"
    THEN [d EXCEPT ![s].readyState = "CLOSING"]
    ELSE d

InitServer ==
    /\ ws = [w \in Conns |-> [state |-> "IDLE", trackType |-> "unknown",
                              callSid |-> NULL, deepgramConnection |-> NoConnection]]
    /\ connections = EmptyMap
    /\ dg = <<>>

\* wss.on("connection")
Connection(w, pathname) ==
    /\ ws[w].state = "IDLE"
    /\ ws' = [ws EXCEPT ![w].state = "OPEN", ![w].trackType = trackTypeOf(pathname)]
    /\ UNCHANGED <<connections, dg>>

\* ws.on("message"), msg.event === "start"
StartBranch(w, callSid) ==
    /\ ws[w].state = "OPEN"
    /\ Len(dg) < MaxSockets
    /\ LET trackType == ws[w].trackType
           streamLabel == streamLabelOf(trackType)
           s == Len(dg) + 1
       IN  /\ dg' = Append(dg, createDeepgramConnection(streamLabel, callSid, trackType, w))
           /\ ws' = [ws EXCEPT ![w].callSid = callSid, ![w].deepgramConnection = s]
           /\ connections' = MapSet(connections, connectionKey(callSid, trackType),
                  [ws |-> w, deepgramConnection |-> s, streamLabel |-> streamLabel,
                   callSid |-> callSid, trackType |-> trackType])

RECURSIVE SumRecv(_)
SumRecv(d) == IF d = <<>> THEN 0 ELSE Len(Head(d).recv) + SumRecv(Tail(d))

\* the media messages that reached a recognizer connection so far
MediaHandled == SumRecv(dg)

\* the media branch on one connection object
sendOrQueue(d, audioBuffer) ==
    IF d.isDeepgramOpen /\ d.readyState = "OPEN"
    THEN [d EXCEPT !.sent = Append(@, audioBuffer), !.recv = Append(@, audioBuffer)]
    ELSE [d EXCEPT !.audioQueue = Append(@, audioBuffer),
                   !.recv = Append(@, audioBuffer)]

\* ws.on("message"), msg.event === "media"
MediaBranch(w, payload) ==
    /\ ws[w].state = "OPEN"
    /\ MediaHandled < MaxMedia
    /\ LET s == ws[w].deepgramConnection
       IN  dg' = IF s # NoConnection
                 THEN [dg EXCEPT ![s] = sendOrQueue(@, base64Decode(payload))]
                 ELSE dg
    /\ UNCHANGED <<ws, connections>>

\* deepgramWs.on("open")
DeepgramOpen(s) ==
    /\ s \in DOMAIN dg
    /\ dg[s].readyState = "CONNECTING"
    /\ dg' = [dg EXCEPT ![s] =
                drainAudioQueue([@ EXCEPT !.readyState = "OPEN",
                                          !.isDeepgramOpen = TRUE,
                                          !.drained = Len(dg[s].audioQueue)])]
    /\ UNCHANGED <<ws, connections>>

\* a failure handler that ends the session: it deregisters it and closes
\* its transport
Mut_DeepgramFail_EndsSession(s) ==
    /\ s \in DOMAIN dg
    /\ dg[s].readyState = "CONNECTING"
    /\ dg' = [dg EXCEPT ![s].readyState = "CLOSED"]
    /\ connections' = MapDelete(connections,
                                connectionKey(dg[s].callSid, dg[s].trackType))
    /\ ws' = [ws EXCEPT ![dg[s].owner].state = "CLOSED"]

\* the handshake fails: "error" then "close", which only log
DeepgramFail(s) ==
    /\ s \in DOMAIN dg
    /\ dg[s].readyState = "CONNECTING"
    /\ dg' = [dg EXCEPT ![s].readyState = "CLOSED"]
    /\ UNCHANGED <<ws, connections>>

\* the socket closes (the closing handshake ends, or the recognizer or the
\* network ends the connection); the "close" handler only logs
DeepgramClose(s) ==
    /\ s \in DOMAIN dg
    /\ dg[s].readyState \in {"OPEN", "CLOSING"}
    /\ dg' = [dg EXCEPT ![s].readyState = "CLOSED"]
    /\ UNCHANGED <<ws, connections>>

\* what a recognizer message holds: response.type === 'Results', the first
\* alternative's transcript (empty for silence) and is_final
Results == [transcript : Transcripts \cup {<<>>}, is_final : BOOLEAN]

RECURSIVE SumFinals(_)
SumFinals(d) == IF d = <<>> THEN 0 ELSE Head(d).finals + SumFinals(Tail(d))

\* the results that reached the aggregator or the transcript clients so far
ResultsHandled == SumFinals(dg)

\* a socket delivers messages while it is open and, after close() was called,
\* until the closing handshake ends
CanDeliver(s) == s \in DOMAIN dg /\ dg[s].readyState \in {"OPEN", "CLOSING"}

----------------------------------------------------------------------------
(* part_000: the handlers that reach the aggregator *)

\* a message handler that gives interim results to the aggregator too
Mut_onResults_AnyResult(cb, sv, callSid, label, response) ==
    IF response.transcript # <<>>
    THEN handleConversationTurn(cb, sv, callSid, label, response.transcript)
    ELSE [cb |-> cb, sv |-> sv]

\* the body of deepgramWs.on("message") for response.type === 'Results': a
\* final result with text goes to handleConversationTurn, an interim one is
\* only logged
onResults(cb, sv, callSid, label, response) ==
    IF response.transcript # <<>> /\ response.is_final
    THEN handleConversationTurn(cb, sv, callSid, label, response.transcript)
    ELSE [cb |-> cb, sv |-> sv]

\* deepgramWs.on("message")
DeepgramMessage(s, response) ==
    /\ CanDeliver(s)
    /\ ResultsHandled < MaxResults
    /\ LET r == onResults(conversationBuffers, supabase, dg[s].callSid, dg[s].label,
                          response)
       IN  /\ conversationBuffers' = r.cb
           /\ supabase' = r.sv
    /\ dg' = IF response.transcript # <<>> /\ response.is_final
             THEN [dg EXCEPT ![s].finals = @ + 1]
             ELSE dg
    /\ UNCHANGED <<nFinals, absorbed, mark, flushStreak, flushEmits, insertOutcome, ws,
                   connections>>

\* history: the session's recognizer connection has been stopped
MarkStopped(d, s) == IF s # NoConnection THEN [d EXCEPT ![s].stopped = TRUE] ELSE d

\* history: a flush of callSid emitted a row
HistEmits(callSid, sv) ==
    flushEmits' = IF callSid \in CallSids /\ sv # supabase
                  THEN [flushEmits EXCEPT ![callSid] = IF @ < 2 THEN @ + 1 ELSE @]
                  ELSE flushEmits

\* the tail of the stop branch and of the close handler: flush when no key
\* of the remaining connections starts with the call SID
flushIfLast(conns, cb, sv, callSid) ==
    IF Cardinality(remainingConnections(conns, callSid)) = 0
    THEN flushConversation(cb, sv, callSid)
    ELSE [cb |-> cb, sv |-> sv]

\* ws.on("message"), msg.event === "stop"
StopBranch(w) ==
    /\ ws[w].state = "OPEN"
    /\ LET callSid == ws[w].callSid
           connectionKey_ == connectionKey(callSid, ws[w].trackType)
           conns1 == MapDelete(connections, connectionKey_)
           r == flushIfLast(conns1, conversationBuffers, supabase, callSid)
       IN  /\ dg' = MarkStopped(
                        IF connectionKey_ \in DOMAIN connections
                        THEN closeIfOpen(dg, connections[connectionKey_].deepgramConnection)
                        ELSE dg, ws[w].deepgramConnection)
           /\ connections' = conns1
           /\ conversationBuffers' = r.cb
           /\ supabase' = r.sv
           /\ HistEmits(callSid, r.sv)
    /\ UNCHANGED <<ws, nFinals, absorbed, mark, flushStreak, insertOutcome>>

\* ws.on("close")
Close(w) ==
    /\ ws[w].state = "OPEN"
    /\ ws' = [ws EXCEPT ![w].state = "CLOSED"]
    /\ dg' = MarkStopped(closeIfOpen(dg, ws[w].deepgramConnection),
                          ws[w].deepgramConnection)
    /\ LET callSid == ws[w].callSid
       IN  IF Truthy(callSid)
           THEN LET conns1 == MapDelete(connections,
                                  connectionKey(callSid, ws[w].trackType))
                    r == flushIfLast(conns1, conversationBuffers, supabase, callSid)
                IN  /\ connections' = conns1
                    /\ conversationBuffers' = r.cb
                    /\ supabase' = r.sv
                    /\ HistEmits(callSid, r.sv)
           ELSE UNCHANGED <<connections, conversationBuffers, supabase, flushEmits>>
    /\ UNCHANGED <<nFinals, absorbed, mark, flushStreak, insertOutcome>>


----------------------------------------------------------------------------
(* part_003: transcript clients and the broadcast *)

Clients == { "k1", "k2", "k3" }

\* Set.add on an insertion-ordered set
SetAdd(set, x) == IF \E i \in DOMAIN set : set[i] = x THEN set ELSE Append(set, x)

\* Set.delete
SetDelete(set, x) == LET IsNot(y) == y # x IN SelectSeq(set, IsNot)

Members(set) == { set[i] : i \in DOMAIN set }

\* the message of broadcastTranscript; its timestamp is left out
transcriptMessage(speaker, transcript, isFinal) ==
    [type |-> "transcript", speaker |-> speaker, transcript |-> transcript,
     isFinal |-> isFinal]

callEndedMessage(callSid) == [type |-> "call_ended", callSid |-> callSid]

\* a forEach that stops at the first send that throws
RECURSIVE Mut_forEachSend_NoCatch(_, _, _, _)
Mut_forEachSend_NoCatch(clients, cl, message, throwing) ==
    IF clients = <<>> THEN cl
    ELSE LET clientWs == Head(clients)
         IN  IF cl[clientWs].readyState = "OPEN" /\ clientWs \in throwing THEN cl
             ELSE Mut_forEachSend_NoCatch(Tail(clients),
                      IF cl[clientWs].readyState = "OPEN"
                      THEN [cl EXCEPT ![clientWs].inbox = Append(@, message)]
                      ELSE cl,
                      message, throwing)

\* clients.forEach of broadcastTranscript: each open client is sent the
\* message inside a try; throwing holds the clients whose send throws
RECURSIVE forEachSend(_, _, _, _)
forEachSend(clients, cl, message, throwing) ==
    IF clients = <<>> THEN cl
    ELSE LET clientWs == Head(clients)
         IN  forEachSend(Tail(clients),
                 IF cl[clientWs].readyState = "OPEN" /\ clientWs \notin throwing
                 THEN [cl EXCEPT ![clientWs].inbox = Append(@, message)]
                 ELSE cl,
                 message, throwing)

RECURSIVE Mut_sendToCalls(_, _, _, _, _)
Mut_sendToCalls(tc, cl, keys, message, throwing) ==
    IF keys = {} THEN cl
    ELSE LET key == CHOOSE x \in keys : TRUE
         IN  Mut_sendToCalls(tc, forEachSend(tc[key], cl, message, throwing),
                             keys \ {key}, message, throwing)

\* a broadcast that matches the call by prefix, as the stop branch does
Mut_broadcastTranscript_PrefixMatch(tc, cl, callSid, speaker, transcript, isFinal, throwing) ==
    Mut_sendToCalls(tc, cl, { key \in DOMAIN tc : startsWith(key, callSid) },
                    transcriptMessage(speaker, transcript, isFinal), throwing)

broadcastTranscript(tc, cl, callSid, speaker, transcript, isFinal, throwing) ==
    IF callSid \in DOMAIN tc
    THEN forEachSend(tc[callSid], cl,
                     transcriptMessage(speaker, transcript, isFinal), throwing)
    ELSE cl

InitClients ==
    /\ transcriptClients = EmptyMap
    /\ client = [k \in Clients |-> [readyState |-> "IDLE", clientCallSid |-> NULL,
                                    inbox |-> <<>>]]
    /\ nPublish = 0
    /\ lastPublish = [callSid |-> NULL, message |-> <<>>, throwing |-> {}]
    /\ thrown = {}

\* transcriptWss.on("connection"); the welcome, registered and pong messages
\* are not kept in inbox
ClientConnection(k) ==
    /\ client[k].readyState = "IDLE"
    /\ client' = [client EXCEPT ![k].readyState = "OPEN"]
    /\ UNCHANGED <<transcriptClients, nPublish, lastPublish>>

\* a register branch that replays the last broadcast to the new client
Mut_Register_Replay(k, callSid) ==
    /\ client[k].readyState = "OPEN"
    /\ client' = [client EXCEPT ![k].clientCallSid = callSid,
                                ![k].inbox = IF nPublish > 0
                                             THEN Append(@, lastPublish.message)
                                             ELSE @]
    /\ transcriptClients' =
          MapSet(transcriptClients, callSid,
                 SetAdd(IF callSid \in DOMAIN transcriptClients
                        THEN transcriptClients[callSid] ELSE <<>>, k))
    /\ UNCHANGED <<nPublish, lastPublish>>

\* a register branch that refuses a call that has no session
Mut_Register_NeedsSession(k, callSid) ==
    /\ client[k].readyState = "OPEN"
    /\ client' = [client EXCEPT ![k].clientCallSid = callSid]
    /\ transcriptClients' =
          IF \E key \in DOMAIN connections : connections[key].callSid = callSid
          THEN MapSet(transcriptClients, callSid,
                      SetAdd(IF callSid \in DOMAIN transcriptClients
                             THEN transcriptClients[callSid] ELSE <<>>, k))
          ELSE transcriptClients
    /\ UNCHANGED <<nPublish, lastPublish>>

\* clientWs.on("message"), msg.type === 'register'; a confirmation whose send
\* throws is caught after the registration
Register(k, callSid) ==
    /\ client[k].readyState = "OPEN"
    /\ client' = [client EXCEPT ![k].clientCallSid = callSid]
    /\ transcriptClients' =
          MapSet(transcriptClients, callSid,
                 SetAdd(IF callSid \in DOMAIN transcriptClients
                        THEN transcriptClients[callSid] ELSE <<>>, k))
    /\ UNCHANGED <<nPublish, lastPublish>>

\* clientWs.on("message"), msg.type === 'ping'
Ping(k) ==
    /\ client[k].readyState = "OPEN"
    /\ UNCHANGED castVars

\* the client socket leaves OPEN; its close event has not been emitted yet
ClientClosing(k) ==
    /\ client[k].readyState = "OPEN"
    /\ client' = [client EXCEPT ![k].readyState = "CLOSING"]
    /\ UNCHANGED <<transcriptClients, nPublish, lastPublish>>

\* a close handler that leaves the emptied set in the map
Mut_ClientClose_KeepsEmptySet(k) ==
    /\ client[k].readyState \in {"OPEN", "CLOSING"}
    /\ client' = [client EXCEPT ![k].readyState = "CLOSED"]
    /\ LET clientCallSid == client[k].clientCallSid
       IN  transcriptClients' =
              IF clientCallSid # NULL /\ clientCallSid \in DOMAIN transcriptClients
              THEN MapSet(transcriptClients, clientCallSid,
                          SetDelete(transcriptClients[clientCallSid], k))
              ELSE transcriptClients
    /\ UNCHANGED <<nPublish, lastPublish>>

\* clientWs.on("close")
ClientClose(k) ==
    /\ client[k].readyState \in {"OPEN", "CLOSING"}
    /\ client' = [client EXCEPT ![k].readyState = "CLOSED"]
    /\ LET clientCallSid == client[k].clientCallSid
       IN  transcriptClients' =
              IF clientCallSid # NULL /\ clientCallSid \in DOMAIN transcriptClients
              THEN LET set == SetDelete(transcriptClients[clientCallSid], k)
                   IN  IF Len(set) = 0
                       THEN MapDelete(transcriptClients, clientCallSid)
                       ELSE MapSet(transcriptClients, clientCallSid, set)
              ELSE transcriptClients
    /\ UNCHANGED <<nPublish, lastPublish>>

Attempted(callSid) ==
    IF callSid \in DOMAIN transcriptClients
    THEN { k \in Members(transcriptClients[callSid]) : client[k].readyState = "OPEN" }
    ELSE {}

\* broadcastTranscript called on its own
Publish(callSid, speaker, transcript, isFinal, throwing) ==
    /\ nPublish < MaxPublish
    /\ nPublish' = nPublish + 1
    /\ lastPublish' = [callSid |-> callSid,
                       message |-> transcriptMessage(speaker, transcript, isFinal),
                       throwing |-> throwing]
    /\ client' = broadcastTranscript(transcriptClients, client, callSid, speaker,
                                     transcript, isFinal, throwing)
    /\ UNCHANGED transcriptClients

ClientEvents ==
    \/ \E k \in Clients : ClientConnection(k)
    \/ \E k \in Clients, callSid \in CallSids : Register(k, callSid)
    \/ \E k \in Clients : Ping(k)
    \/ \E k \in Clients : ClientClosing(k)
    \/ \E k \in Clients : ClientClose(k)


----------------------------------------------------------------------------
(* src/server.js: the AssemblyAI relay, one transport connection.  The     *)
(* handlers of the transport socket and of assemblyWs are registered in    *)
(* the then-callback of the token request (40-170).                        *)

\* history: arrived, the payloads of the media messages the transport socket
\* has emitted since the connection was accepted; sent, the payloads
\* assemblyWs has been given
InitRelay ==
    relay = [ ws |-> "IDLE", token |-> "none", assemblyWs |-> "null",
              isAssemblyOpen |-> FALSE, audioQueue |-> <<>>, callSid |-> NULL,
              activeConnections |-> FALSE, sent |-> <<>>, arrived |-> <<>> ]

\* wss.on("connection"): the token request is issued (21-39)
RelayConnection ==
    /\ relay.ws = "IDLE"
    /\ relay' = [relay EXCEPT !.ws = "OPEN", !.token = "pending"]

\* .then((res) => ...): assemblyWs is created and every handler registered
TokenResolved ==
    /\ relay.token = "pending"
    /\ relay' = [relay EXCEPT !.token = "resolved", !.assemblyWs = "CONNECTING"]

\* .catch((err) => ...): ws.close() (171-174)
TokenRejected ==
    /\ relay.token = "pending"
    /\ relay' = [relay EXCEPT !.token = "rejected",
                              !.ws = IF @ = "OPEN" THEN "CLOSING" ELSE @]

\* the transport socket emits a media message: with no listener registered
\* yet it is lost, otherwise ws.on("message") runs its media branch (133-141)
RelayMedia(payload) ==
    /\ relay.ws \in {"OPEN", "CLOSING"}
    /\ Len(relay.arrived) < MaxMedia
    /\ relay' =
          LET r == [relay EXCEPT !.arrived = Append(@, payload)]
          IN  IF relay.token # "resolved" THEN r
              ELSE IF r.isAssemblyOpen /\ r.assemblyWs = "OPEN"
                   THEN [r EXCEPT !.sent = Append(@, payload)]
                   ELSE [r EXCEPT !.audioQueue = Append(@, payload)]

\* the transport socket emits a start message (120-130)
RelayStart(callSid) ==
    /\ relay.ws \in {"OPEN", "CLOSING"}
    /\ relay' = IF relay.token # "resolved" THEN relay
                ELSE [relay EXCEPT !.callSid = callSid, !.activeConnections = TRUE]

\* assemblyWs.on("open"): every queued payload is sent (50-59)
AssemblyOpen ==
    /\ relay.assemblyWs = "CONNECTING"
    /\ relay' = [relay EXCEPT !.assemblyWs = "OPEN", !.isAssemblyOpen = TRUE,
                              !.sent = @ \o relay.audioQueue, !.audioQueue = <<>>]

\* assemblyWs.on("message") (61-104) sends the transcripts on to the
\* transport socket and changes none of these variables; it is left out.

\* assemblyWs fails to connect, or closes; the handlers only log (106-112)
AssemblyClose ==
    /\ relay.assemblyWs \in {"CONNECTING", "OPEN", "CLOSING"}
    /\ relay' = [relay EXCEPT !.assemblyWs = "CLOSED"]

\* the transport socket closes; ws.on("close") runs if it was registered
\* (153-168); transcriptionBuffer is always empty
RelayClose ==
    /\ relay.ws \in {"OPEN", "CLOSING"}
    /\ relay' = IF relay.token # "resolved" THEN [relay EXCEPT !.ws = "CLOSED"]
                ELSE [relay EXCEPT !.ws = "CLOSED",
                                   !.assemblyWs = IF @ = "OPEN" THEN "CLOSING" ELSE @,
                                   !.activeConnections = FALSE]

----------------------------------------------------------------------------
(* part_002: TranscriptionServer *)

TsConns == { "t1", "t2" }

\* session objects are numbered in creation order; callSessions holds the
\* number of the object stored for a call, and connectToDeepgram's handlers
\* keep the object they were made with
NoSession == 0

InitTranscriptionServer ==
    /\ callSessions = EmptyMap
    /\ sessions = <<>>
    /\ tws = [t \in TsConns |-> [readyState |-> "IDLE", callSid |-> NULL,
                                 inbox |-> <<>>, recv |-> <<>>]]
    /\ tdg = <<>>

\* this.callSessions.get(callSid)
sessionOf(cs, callSid) == IF callSid \in DOMAIN cs THEN cs[callSid] ELSE NoSession

\* wss.on('connection'): extractCallSid, callSessions.set, connectToDeepgram
\* (19-59, 68-87).  History: owner, the transport that made the recognizer
\* socket; sent, what the socket has been given; delivered, the number of
\* responses it delivered.
TsConnection(t, callSid) ==
    /\ tws[t].readyState = "IDLE"
    /\ IF callSid = NULL
       THEN /\ tws' = [tws EXCEPT ![t].readyState = "CLOSED"]
            /\ UNCHANGED <<callSessions, sessions, tdg>>
       ELSE /\ tws' = [tws EXCEPT ![t].readyState = "OPEN", ![t].callSid = callSid]
            /\ sessions' = Append(sessions,
                               [callSid |-> callSid, ws |-> t, transcriptBuffer |-> <<>>,
                                deepgramConnection |-> NoConnection])
            /\ callSessions' = MapSet(callSessions, callSid, Len(sessions) + 1)
            /\ tdg' = Append(tdg, [readyState |-> "CONNECTING", callSid |-> callSid,
                                   session |-> Len(sessions) + 1, owner |-> t,
                                   sent |-> <<>>, delivered |-> 0])

\* deepgramWs.onopen (89-92)
TsDeepgramOpen(s) ==
    /\ tdg[s].readyState = "CONNECTING"
    /\ tdg' = [tdg EXCEPT ![s].readyState = "OPEN"]
    /\ sessions' = [sessions EXCEPT ![tdg[s].session].deepgramConnection = s]
    /\ UNCHANGED <<callSessions, tws>>

\* deepgramWs.onerror, deepgramWs.onclose: they only log (103-109)
TsDeepgramClose(s) ==
    /\ tdg[s].readyState # "CLOSED"
    /\ tdg' = [tdg EXCEPT ![s].readyState = "CLOSED"]
    /\ UNCHANGED <<callSessions, sessions, tws>>

RECURSIVE SumTsRecv(_)
SumTsRecv(ts) ==
    IF ts = {} THEN 0
    ELSE LET t == CHOOSE x \in ts : TRUE IN Len(tws[t].recv) + SumTsRecv(ts \ {t})

\* handleAudioData (120-131)
handleAudioData(cs, ss, d, callSid, audioData) ==
    LET session == sessionOf(cs, callSid)
    IN  IF session = NoSession \/ ss[session].deepgramConnection = NoConnection THEN d
        ELSE IF d[ss[session].deepgramConnection].readyState = "OPEN"
             THEN [d EXCEPT ![ss[session].deepgramConnection].sent = Append(@, audioData)]
             ELSE d

\* ws.on('message') (42-44)
TsAudio(t, audioData) ==
    /\ tws[t].readyState = "OPEN"
    /\ SumTsRecv(TsConns) < MaxMedia
    /\ tws' = [tws EXCEPT ![t].recv = Append(@, audioData)]
    /\ tdg' = handleAudioData(callSessions, sessions, tdg, tws[t].callSid, audioData)
    /\ UNCHANGED <<callSessions, sessions>>

\* broadcastTranscript and broadcastInterimTranscript (171-191)
sendToSession(tw, session, type, callSid, message) ==
    IF tw[session.ws].readyState = "OPEN"
    THEN [tw EXCEPT ![session.ws].inbox =
                Append(@, [type |-> type, callSid |-> callSid, data |-> message])]
    ELSE tw

\* handleDeepgramResponse for data.type === 'Results' (133-169); confidence,
\* timestamp and speaker are left out of the message
handleDeepgramResponse(cs, ss, tw, callSid, data) ==
    LET session == sessionOf(cs, callSid)
        transcript == data.transcript
        isFinal == ~data.is_final
    IN  IF session = NoSession THEN [ss |-> ss, tw |-> tw]
        ELSE IF transcript # <<>> /\ trim(transcript) # <<>>
             THEN IF isFinal
                  THEN LET transcriptMessage_ == [transcript |-> trim(transcript),
                                                  isInterim |-> FALSE]
                       IN  [ss |-> [ss EXCEPT ![session].transcriptBuffer =
                                        Append(@, transcriptMessage_)],
                            tw |-> sendToSession(tw, ss[session], "transcript", callSid,
                                                 transcriptMessage_)]
                  ELSE [ss |-> ss,
                        tw |-> sendToSession(tw, ss[session], "interim", callSid,
                                             [transcript |-> trim(transcript),
                                              isInterim |-> TRUE])]
             ELSE [ss |-> ss, tw |-> tw]

\* what a recognizer message holds: data.type === 'Results', the first
\* alternative's transcript and is_final
TsResults == [transcript : {<<"a">>, <<SP>>, <<>>}, is_final : BOOLEAN]

RECURSIVE SumDelivered(_)
SumDelivered(d) == IF d = <<>> THEN 0 ELSE Head(d).delivered + SumDelivered(Tail(d))

\* deepgramWs.onmessage (94-101)
TsDeepgramMessage(s, data) ==
    /\ tdg[s].readyState \in {"OPEN", "CLOSING"}
    /\ SumDelivered(tdg) < MaxResults
    /\ LET r == handleDeepgramResponse(callSessions, sessions, tws, tdg[s].callSid, data)
       IN  /\ sessions' = r.ss
           /\ tws' = r.tw
    /\ tdg' = [tdg EXCEPT ![s].delivered = @ + 1]
    /\ UNCHANGED callSessions

\* disconnectFromDeepgram then callSessions.delete: the body of the close and
\* of the error handler of the transport socket (47-58, 112-118)
endSession(cs, ss, d, callSid) ==
    LET session == sessionOf(cs, callSid)
        dc == IF session = NoSession THEN NoConnection
              ELSE ss[session].deepgramConnection
    IN  [cs |-> MapDelete(cs, callSid),
         ss |-> IF dc # NoConnection
                THEN [ss EXCEPT ![session].deepgramConnection = NoConnection]
                ELSE ss,
         d |-> IF dc # NoConnection /\ d[dc].readyState = "OPEN"
               THEN [d EXCEPT ![dc].readyState = "CLOSING"]
               ELSE d]

\* ws.on('error'); the socket's close event follows
TsError(t) ==
    /\ tws[t].readyState = "OPEN"
    /\ LET r == endSession(callSessions, sessions, tdg, tws[t].callSid)
       IN  /\ callSessions' = r.cs
           /\ sessions' = r.ss
           /\ tdg' = r.d
    /\ UNCHANGED tws

\* ws.on('close')
TsClose(t) ==
    /\ tws[t].readyState = "OPEN"
    /\ tws' = [tws EXCEPT ![t].readyState = "CLOSED"]
    /\ LET r == endSession(callSessions, sessions, tdg, tws[t].callSid)
       IN  /\ callSessions' = r.cs
           /\ sessions' = r.ss
           /\ tdg' = r.d

----------------------------------------------------------------------------
(* History of the aggregator *)

\* the rows of one call, in order
RECURSIVE RowsOf(_, _)
RowsOf(sv, c) ==
    IF sv = <<>> THEN <<>>
    ELSE (IF Head(sv).call_sid = c
          THEN <<[speaker |-> Head(sv).speaker, text |-> Head(sv).transcript]>>
          ELSE <<>>) \o RowsOf(Tail(sv), c)

RowsSince(sv, c, n) == LET r == RowsOf(sv, c) IN SubSeq(r, n + 1, Len(r))

HistAbsorb(c, speaker, transcript) ==
    /\ absorbed' = [absorbed EXCEPT ![c] =
            IF flushStreak[c] > 0 THEN <<[speaker |-> speaker, text |-> transcript]>>
            ELSE Append(@, [speaker |-> speaker, text |-> transcript])]
    /\ mark' = [mark EXCEPT ![c] =
            IF flushStreak[c] > 0 THEN Len(RowsOf(supabase, c)) ELSE @]
    /\ flushStreak' = [flushStreak EXCEPT ![c] = 0]

HistFlush(c) ==
    /\ flushStreak' = [flushStreak EXCEPT ![c] = IF @ < 2 THEN @ + 1 ELSE @]
    /\ UNCHANGED <<absorbed, mark>>

----------------------------------------------------------------------------
(* The aggregator on its own: finals and flushes in any order *)

InitAggregator ==
    /\ conversationBuffers = EmptyMap
    /\ supabase = <<>>
    /\ nFinals = 0
    /\ absorbed = [c \in CallSids |-> <<>>]
    /\ mark = [c \in CallSids |-> 0]
    /\ flushStreak = [c \in CallSids |-> 0]
    /\ flushEmits = [c \in CallSids |-> 0]
    /\ insertOutcome = EmptyMap

NoEarly == [ws |-> "none", event |-> "none"]

InitAgg ==
    /\ InitAggregator /\ InitServer /\ InitClients /\ InitRelay /\ InitTranscriptionServer
    /\ early = NoEarly

AggFinal(c, speaker, transcript) ==
    /\ nFinals < MaxFinals
    /\ nFinals' = nFinals + 1
    /\ LET r == handleConversationTurn(conversationBuffers, supabase, c,
                                       speaker, transcript)
       IN  /\ conversationBuffers' = r.cb
           /\ supabase' = r.sv
    /\ HistAbsorb(c, speaker, transcript)
    /\ UNCHANGED <<flushEmits, insertOutcome, srvVars, castVars>>

AggFlush(c) ==
    /\ LET r == flushConversation(conversationBuffers, supabase, c)
       IN  /\ conversationBuffers' = r.cb
           /\ supabase' = r.sv
    /\ HistFlush(c)
    /\ UNCHANGED <<nFinals, flushEmits, insertOutcome, srvVars, castVars>>

NextAgg ==
    \/ \E c \in CallSids, s \in Speakers, t \in Transcripts :
          AggFinal(c, s, t) /\ UNCHANGED <<thrown, otherVars, early>>
    \/ \E c \in CallSids : AggFlush(c) /\ UNCHANGED <<thrown, otherVars, early>>

SpecAgg == InitAgg /\ [][NextAgg]_vars

\* how an insert can end: data, an error in the result (part_000:55), or a
\* rejection or exception that the catch takes (part_000:60)
InsertOutcomes == { "ok", "error", "exception" }

\* a settlement that takes the failed turn's aggregator down with it
Mut_InsertSettles_FailureDropsBuffer(i, outcome) ==
    /\ i \in DOMAIN supabase
    /\ i \notin DOMAIN insertOutcome
    /\ insertOutcome' = MapSet(insertOutcome, i, outcome)
    /\ conversationBuffers' = IF outcome = "ok" THEN conversationBuffers
                              ELSE MapDelete(conversationBuffers, supabase[i].call_sid)
    /\ UNCHANGED <<supabase, nFinals, absorbed, mark, flushStreak, flushEmits, srvVars,
                   castVars>>

\* the rest of saveTranscriptToSupabase, after the await: the insert of row
\* i has ended and the outcome is logged
InsertSettles(i, outcome) ==
    /\ i \in DOMAIN supabase
    /\ i \notin DOMAIN insertOutcome
    /\ insertOutcome' = MapSet(insertOutcome, i, outcome)
    /\ UNCHANGED <<conversationBuffers, supabase, nFinals, absorbed, mark, flushStreak,
                   flushEmits, srvVars, castVars>>

\* The aggregator with the settlements of its inserts, in any order
NextPersist ==
    \/ NextAgg
    \/ \E i \in 1..MaxFinals, outcome \in InsertOutcomes :
          InsertSettles(i, outcome) /\ UNCHANGED <<thrown, otherVars, early>>

SpecPersist == InitAgg /\ [][NextPersist]_vars

\* The transcript clients on their own: registrations, closes and broadcasts
\* in any order
NextClients ==
    \/ ClientEvents /\ UNCHANGED <<aggVars, srvVars, thrown, otherVars, early>>
    \/ \E callSid \in CallSids, speaker \in {"CALLER"}, transcript \in {<<"a">>},
          isFinal \in {TRUE} : \E throwing \in SUBSET Attempted(callSid) :
          /\ Publish(callSid, speaker, transcript, isFinal, throwing)
          /\ UNCHANGED <<aggVars, srvVars, thrown, otherVars, early>>

SpecClients == InitAgg /\ [][NextClients]_vars

----------------------------------------------------------------------------
(* part_000, the whole server *)

Init == InitAgg

\* a start message also begins a new count of the call's emitting flushes
Start(w, callSid) ==
    /\ StartBranch(w, callSid)
    /\ flushEmits' = [flushEmits EXCEPT ![callSid] = 0]
    /\ UNCHANGED <<conversationBuffers, supabase, nFinals, absorbed, mark, flushStreak,
                   insertOutcome>>

\* Media messages change only the recognizer sockets' queues, and recognizer
\* results change only the aggregator: Spec draws every event but media
\* messages, SpecAudio every event but recognizer results.
Transports ==
    \/ \E w \in Conns, pathname \in Pathnames :
          Connection(w, pathname) /\ UNCHANGED aggVars
    \/ \E w \in Conns, callSid \in CallSids : Start(w, callSid)

Recognizers ==
    \/ \E s \in DOMAIN dg : DeepgramOpen(s) /\ UNCHANGED aggVars
    \/ \E s \in DOMAIN dg : DeepgramFail(s) /\ UNCHANGED aggVars
    \/ \E s \in DOMAIN dg : DeepgramClose(s) /\ UNCHANGED aggVars

Teardown ==
    \/ Transports
    \/ Recognizers
    \/ \E w \in Conns : StopBranch(w)
    \/ \E w \in Conns : Close(w)

Next ==
    \/ Teardown /\ UNCHANGED <<castVars, thrown, otherVars, early>>
    \/ \E s \in DOMAIN dg, response \in Results :
          DeepgramMessage(s, response) /\ UNCHANGED <<castVars, thrown, otherVars, early>>

Spec == Init /\ [][Next]_vars

NextAudio ==
    \/ Teardown /\ UNCHANGED <<castVars, thrown, otherVars, early>>
    \/ \E w \in Conns, payload \in Payloads :
          MediaBranch(w, payload) /\ UNCHANGED <<aggVars, castVars, thrown, otherVars, early>>

SpecAudio == Init /\ [][NextAudio]_vars

\* the messages of a transport that are not a start, media or stop message
\* of the protocol: text that JSON.parse rejects, the JSON value null, a start
\* message without its start object or without start.callSid, a media
\* message without its media object or without media.payload, and a message
\* of another event
MalformedKinds ==
    { "notJSON", "null", "startNoBody", "startNoCallSid", "mediaNoBody",
      "mediaNoPayload", "otherEvent" }

\* ws.on("message") on such a message: JSON.parse or the property access
\* throws into the catch, or no branch is taken; a start object without
\* callSid passes msg.event === "start" && msg.start
Malformed(w, kind) ==
    /\ ws[w].state = "OPEN"
    /\ IF kind = "startNoCallSid"
       THEN StartBranch(w, UNDEFINED)
       ELSE UNCHANGED srvVars

\* The transports and recognizer sockets of part_000 with malformed messages
NextMalformed ==
    \/ Teardown /\ UNCHANGED <<castVars, thrown, otherVars, early>>
    \/ \E w \in Conns, kind \in MalformedKinds :
          Malformed(w, kind) /\ UNCHANGED <<aggVars, castVars, thrown, otherVars, early>>

SpecMalformed == Init /\ [][NextMalformed]_vars

\* let callSid = null; let deepgramConnection = null: no start message yet
NotStarted(w) == ws[w].callSid = NULL /\ ws[w].deepgramConnection = NoConnection

EarlyOf(w, event) == IF NotStarted(w) THEN [ws |-> w, event |-> event] ELSE NoEarly

\* part_000 with the stop and media messages of connections that have not
\* started: transports, recognizer opens and results, stops, closes, and
\* the media messages of the connections that have not started (SpecAudio
\* draws those of the others)
NextEarly ==
    \/ Transports /\ early' = NoEarly /\ UNCHANGED <<castVars, thrown, otherVars>>
    \/ \E s \in DOMAIN dg :
          DeepgramOpen(s) /\ early' = NoEarly
             /\ UNCHANGED <<aggVars, castVars, thrown, otherVars>>
    \/ \E s \in DOMAIN dg, response \in Results :
          DeepgramMessage(s, response) /\ early' = NoEarly
             /\ UNCHANGED <<castVars, thrown, otherVars>>
    \/ \E w \in Conns :
          StopBranch(w) /\ early' = EarlyOf(w, "stop")
             /\ UNCHANGED <<castVars, thrown, otherVars>>
    \/ \E w \in Conns, payload \in Payloads :
          NotStarted(w) /\ MediaBranch(w, payload) /\ early' = EarlyOf(w, "media")
             /\ UNCHANGED <<aggVars, castVars, thrown, otherVars>>
    \/ \E w \in Conns :
          Close(w) /\ early' = NoEarly /\ UNCHANGED <<castVars, thrown, otherVars>>

SpecEarly == Init /\ [][NextEarly]_vars

----------------------------------------------------------------------------
(* src/server.js, the whole relay for one transport connection *)

NextRelay ==
    \/ RelayConnection /\ UNCHANGED <<aggVars, srvVars, castVars, thrown, tsVars, early>>
    \/ TokenResolved /\ UNCHANGED <<aggVars, srvVars, castVars, thrown, tsVars, early>>
    \/ TokenRejected /\ UNCHANGED <<aggVars, srvVars, castVars, thrown, tsVars, early>>
    \/ \E payload \in Payloads :
          RelayMedia(payload) /\ UNCHANGED <<aggVars, srvVars, castVars, thrown, tsVars, early>>
    \/ \E callSid \in CallSids :
          RelayStart(callSid) /\ UNCHANGED <<aggVars, srvVars, castVars, thrown, tsVars, early>>
    \/ AssemblyOpen /\ UNCHANGED <<aggVars, srvVars, castVars, thrown, tsVars, early>>
    \/ AssemblyClose /\ UNCHANGED <<aggVars, srvVars, castVars, thrown, tsVars, early>>
    \/ RelayClose /\ UNCHANGED <<aggVars, srvVars, castVars, thrown, tsVars, early>>

SpecRelay == Init /\ [][NextRelay]_vars

----------------------------------------------------------------------------
(* part_002, the whole server *)

NextTs ==
    \/ \E t \in TsConns, callSid \in CallSids \cup {NULL} :
          TsConnection(t, callSid)
             /\ UNCHANGED <<aggVars, srvVars, castVars, thrown, relayVars, early>>
    \/ \E s \in DOMAIN tdg :
          TsDeepgramOpen(s) /\ UNCHANGED <<aggVars, srvVars, castVars, thrown, relayVars, early>>
    \/ \E s \in DOMAIN tdg :
          TsDeepgramClose(s) /\ UNCHANGED <<aggVars, srvVars, castVars, thrown, relayVars, early>>
    \/ \E t \in TsConns, audioData \in Payloads :
          TsAudio(t, audioData) /\ UNCHANGED <<aggVars, srvVars, castVars, thrown, relayVars, early>>
    \/ \E s \in DOMAIN tdg, data \in TsResults :
          TsDeepgramMessage(s, data)
             /\ UNCHANGED <<aggVars, srvVars, castVars, thrown, relayVars, early>>
    \/ \E t \in TsConns :
          TsError(t) /\ UNCHANGED <<aggVars, srvVars, castVars, thrown, relayVars, early>>
    \/ \E t \in TsConns :
          TsClose(t) /\ UNCHANGED <<aggVars, srvVars, castVars, thrown, relayVars, early>>

SpecTs == Init /\ [][NextTs]_vars

----------------------------------------------------------------------------
(* part_003, the whole server *)

\* clients.forEach of the stop branch: the sends are not inside a try, so the
\* first send that throws ends the loop and the handler
RECURSIVE forEachSendCallEnded(_, _, _, _)
forEachSendCallEnded(clients, cl, message, throwing) ==
    IF clients = <<>> THEN [cl |-> cl, threw |-> FALSE]
    ELSE LET clientWs == Head(clients)
         IN  IF cl[clientWs].readyState = "OPEN" /\ clientWs \in throwing
             THEN [cl |-> cl, threw |-> TRUE]
             ELSE forEachSendCallEnded(Tail(clients),
                      IF cl[clientWs].readyState = "OPEN"
                      THEN [cl EXCEPT ![clientWs].inbox = Append(@, message)]
                      ELSE cl,
                      message, throwing)

RECURSIVE SumInbox(_, _)
SumInbox(cl, ks) ==
    IF ks = {} THEN 0
    ELSE LET k == CHOOSE x \in ks : TRUE
         IN  Len(cl[k].inbox) + SumInbox(cl, ks \ {k})

\* history: the number of events sent to the clients so far
InboxTotal == SumInbox(client, Clients)

\* ws.on("message"), msg.event === "stop"
StopBranchCast(w, throwing) ==
    /\ ws[w].state = "OPEN"
    /\ LET callSid == ws[w].callSid
           connectionKey_ == connectionKey(callSid, ws[w].trackType)
           conns1 == MapDelete(connections, connectionKey_)
           ended == /\ Cardinality(remainingConnections(conns1, callSid)) = 0
                    /\ callSid \in DOMAIN transcriptClients
           r == IF ended
                THEN forEachSendCallEnded(transcriptClients[callSid], client,
                                          callEndedMessage(callSid), throwing)
                ELSE [cl |-> client, threw |-> FALSE]
       IN  /\ ended => InboxTotal < MaxInbox
           /\ dg' = MarkStopped(
                        IF connectionKey_ \in DOMAIN connections
                        THEN closeIfOpen(dg, connections[connectionKey_].deepgramConnection)
                        ELSE dg, ws[w].deepgramConnection)
           /\ connections' = conns1
           /\ client' = r.cl
           /\ transcriptClients' = IF ended /\ ~r.threw
                                   THEN MapDelete(transcriptClients, callSid)
                                   ELSE transcriptClients
           /\ thrown' = IF ended THEN throwing ELSE {}
    /\ UNCHANGED <<ws, aggVars, nPublish, lastPublish, otherVars, early>>

\* ws.on("close")
CloseCast(w) ==
    /\ ws[w].state = "OPEN"
    /\ ws' = [ws EXCEPT ![w].state = "CLOSED"]
    /\ dg' = MarkStopped(closeIfOpen(dg, ws[w].deepgramConnection),
                          ws[w].deepgramConnection)
    /\ connections' = IF Truthy(ws[w].callSid)
                      THEN MapDelete(connections,
                                     connectionKey(ws[w].callSid, ws[w].trackType))
                      ELSE connections
    /\ thrown' = {}
    /\ UNCHANGED <<aggVars, castVars, otherVars, early>>

\* the body of deepgramWs.on("message") for response.type === 'Results':
\* final and interim results with text are both broadcast
onResultsCast(tc, cl, callSid, label, response, throwing) ==
    IF response.transcript # <<>>
    THEN broadcastTranscript(tc, cl, callSid, label, response.transcript,
                             response.is_final, throwing)
    ELSE cl

\* deepgramWs.on("message")
DeepgramMessageCast(s, response, throwing) ==
    /\ CanDeliver(s)
    /\ ResultsHandled < MaxResults
    /\ client' = onResultsCast(transcriptClients, client, dg[s].callSid, dg[s].label,
                               response, throwing)
    /\ IF response.transcript # <<>>
       THEN /\ dg' = [dg EXCEPT ![s].finals = @ + 1]
            /\ thrown' = throwing
       ELSE UNCHANGED <<dg, thrown>>
    /\ UNCHANGED <<aggVars, ws, connections, transcriptClients, nPublish, lastPublish,
                   otherVars, early>>

CastClients == { "k1", "k2" }

CastResults == [transcript : {<<"a">>, <<>>}, is_final : BOOLEAN]

\* first registrations only; SpecClients draws the later ones
CastClientEvents ==
    \/ \E k \in CastClients : ClientConnection(k)
    \/ \E k \in CastClients, callSid \in CallSids :
          client[k].clientCallSid = NULL /\ Register(k, callSid)
    \/ \E k \in CastClients : Ping(k)
    \/ \E k \in CastClients : ClientClosing(k)
    \/ \E k \in CastClients : ClientClose(k)

\* The stop branch and the close handler read the recognizer sockets only
\* to close them, and a recognizer result changes only what the clients have
\* been sent: SpecCast draws the transport and client events.
NextCast ==
    \/ Transports /\ UNCHANGED <<castVars, thrown, otherVars, early>>
    \/ \E w \in Conns : \E throwing \in SUBSET Attempted(ws[w].callSid) :
          StopBranchCast(w, throwing)
    \/ \E w \in Conns : CloseCast(w)
    \/ CastClientEvents /\ UNCHANGED <<aggVars, srvVars, thrown, otherVars, early>>

SpecCast == Init /\ [][NextCast]_vars

\* SpecCast with the broadcasts of the recognizers' results, each drawn as a
\* call of broadcastTranscript for any call
NextEvents ==
    \/ NextCast
    \/ \E callSid \in CallSids, speaker \in {"CALLER"}, transcript \in {<<"a">>},
          isFinal \in {TRUE} : \E throwing \in SUBSET Attempted(callSid) :
          /\ nPublish < MaxBroadcast
          /\ Publish(callSid, speaker, transcript, isFinal, throwing)
          /\ UNCHANGED <<aggVars, srvVars, thrown, otherVars, early>>

SpecEvents == Init /\ [][NextEvents]_vars

----------------------------------------------------------------------------
(* Claims about the aggregator, under SpecAgg *)

\* length of the first maximal same-speaker run of a non-empty sequence
RECURSIVE RunLen(_)
RunLen(fs) ==
    IF Len(fs) >= 2 /\ fs[2].speaker = fs[1].speaker THEN 1 + RunLen(Tail(fs))
    ELSE 1

RECURSIVE JoinSp(_)
JoinSp(fs) ==
    IF Len(fs) = 1 THEN fs[1].text ELSE fs[1].text \o <<SP>> \o JoinSp(Tail(fs))

\* one turn per maximal run: its speaker, its texts joined by single spaces,
\* without leading or trailing space
RECURSIVE MaximalRuns(_)
MaximalRuns(fs) ==
    IF fs = <<>> THEN <<>>
    ELSE LET n == RunLen(fs)
         IN  <<[speaker |-> fs[1].speaker,
                text |-> trim(JoinSp(SubSeq(fs, 1, n)))]>>
             \o MaximalRuns(SubSeq(fs, n + 1, Len(fs)))

IsNonBlankTurn(t) == t.text # <<>>

NonBlank(turns) == SelectSeq(turns, IsNonBlankTurn)

\* C2 as stated: after a flush, the turns emitted for the finals absorbed
\* since the previous flush are exactly the maximal same-speaker runs.
C2_AllRunsEmitted ==
    \A c \in CallSids :
        flushStreak[c] >= 1 =>
            RowsSince(supabase, c, mark[c]) = MaximalRuns(absorbed[c])

\* C2 amended: after a flush, the turns emitted for the finals absorbed since
\* the previous flush are exactly the maximal same-speaker runs whose joined
\* text is not blank, in order, each with the run's speaker and the run's
\* texts joined by single spaces and trimmed.
C2_NonBlankRunsEmitted ==
    \A c \in CallSids :
        flushStreak[c] >= 1 =>
            RowsSince(supabase, c, mark[c]) = NonBlank(MaximalRuns(absorbed[c]))

\* finals (CALLER,a),(CALLER,b),(CALLEE,a) then a flush gave two turns
C2_Witness ==
    /\ flushStreak[<<"A">>] = 1
    /\ absorbed[<<"A">>] = << [speaker |-> "CALLER", text |-> <<"a">>],
                              [speaker |-> "CALLER", text |-> <<"b">>],
                              [speaker |-> "CALLEE", text |-> <<"a">>] >>
    /\ RowsSince(supabase, <<"A">>, mark[<<"A">>]) =
            << [speaker |-> "CALLER", text |-> <<"a", SP, "b">>],
               [speaker |-> "CALLEE", text |-> <<"a">>] >>

\* C4: a flush that follows a flush of the same call with no final absorbed
\* in between emits nothing and changes no aggregator state.
C4_SecondFlushNoop ==
    [][\A c \in CallSids :
          (flushStreak[c] = 1 /\ flushStreak'[c] = 2) =>
              /\ supabase' = supabase
              /\ conversationBuffers' = conversationBuffers]_vars

\* a call was flushed twice in a row and the first flush emitted a turn
C4_Witness ==
    \E c \in CallSids :
        /\ flushStreak[c] = 2
        /\ Len(RowsSince(supabase, c, mark[c])) >= 1

\* the last maximal same-speaker run of a non-empty sequence
RECURSIVE LastRun(_)
LastRun(fs) ==
    LET n == RunLen(fs)
    IN  IF n = Len(fs) THEN fs ELSE LastRun(SubSeq(fs, n + 1, Len(fs)))

\* C22: a call's aggregator holds the speaker of the last final it absorbed,
\* and its buffer is the text of the finals of the last run of that speaker,
\* each followed by a space, and of no other final
C22_BufferOfCurrentSpeaker ==
    \A c \in DOMAIN conversationBuffers :
        /\ flushStreak[c] = 0
        /\ absorbed[c] # <<>>
        /\ LET run == LastRun(absorbed[c])
           IN  /\ conversationBuffers[c].currentSpeaker = run[1].speaker
               /\ conversationBuffers[c].buffer = JoinSp(run) \o <<SP>>

\* after finals (CALLER,a),(CALLEE,b),(CALLEE,a) the buffer is CALLEE's "b a "
C22_Witness ==
    /\ <<"A">> \in DOMAIN conversationBuffers
    /\ absorbed[<<"A">>] = << [speaker |-> "CALLER", text |-> <<"a">>],
                              [speaker |-> "CALLEE", text |-> <<"b">>],
                              [speaker |-> "CALLEE", text |-> <<"a">>] >>
    /\ conversationBuffers[<<"A">>] =
          [currentSpeaker |-> "CALLEE", buffer |-> <<"b", SP, "a", SP>>]

\* C23: no emitted turn has empty or whitespace-only text
C23_NoBlankTurn ==
    \A i \in DOMAIN supabase :
        \E j \in DOMAIN supabase[i].transcript : supabase[i].transcript[j] # SP

\* a whitespace-only final of CALLER then a final of CALLEE, then a flush: the
\* speaker change emitted nothing and the flush emitted CALLEE's turn
C23_Witness ==
    /\ flushStreak[<<"A">>] = 1
    /\ absorbed[<<"A">>] = << [speaker |-> "CALLER", text |-> <<SP>>],
                              [speaker |-> "CALLEE", text |-> <<"a">>] >>
    /\ supabase = << [call_sid |-> <<"A">>, speaker |-> "CALLEE",
                      transcript |-> <<"a">>] >>

\* C24: the step that emits a turn does not learn how its insert ends, and
\* the end of an insert, failed or not, changes nothing but the record of how
\* it ended: the aggregators, the rows, the sessions and the clients are as
\* they would be after a success
C24_PersistFailureChangesNothing ==
    [][/\ Len(supabase') > Len(supabase) => insertOutcome' = insertOutcome
       /\ insertOutcome' # insertOutcome =>
            /\ conversationBuffers' = conversationBuffers
            /\ supabase' = supabase
            /\ srvVars' = srvVars
            /\ castVars' = castVars]_vars

\* the insert of a call's first turn failed, that of its second turn
\* succeeded, and the call has been flushed
C24_Witness ==
    /\ Len(supabase) = 2
    /\ supabase[1].call_sid = supabase[2].call_sid
    /\ DOMAIN insertOutcome = {1, 2}
    /\ insertOutcome[1] = "error"
    /\ insertOutcome[2] = "ok"
    /\ flushStreak[supabase[1].call_sid] = 1

----------------------------------------------------------------------------
(* Claims about part_000 *)

\* C1: the recognizer has received a prefix of the frames the media branch
\* handed to its connection, in their order, and the rest is queued in order
\* (none skipped, duplicated or reordered); it has received nothing before the
\* open event, and once the open handler has run on an open socket every
\* frame handed over so far, the queued ones first, has been received.
C1_FramesInOrder ==
    \A s \in DOMAIN dg :
        /\ dg[s].sent \o dg[s].audioQueue = dg[s].recv
        /\ ~dg[s].isDeepgramOpen => dg[s].sent = <<>>
        /\ (dg[s].isDeepgramOpen /\ dg[s].readyState = "OPEN") =>
               (dg[s].audioQueue = <<>> /\ dg[s].sent = dg[s].recv)

\* two different frames were queued before the open event, and the open
\* handler sent both
C1_Witness ==
    \E s \in DOMAIN dg :
        /\ dg[s].drained = 2
        /\ dg[s].sent = << <<65>>, <<66>> >>

\* C16: once a recognizer socket has closed, a media message is neither
\* forwarded to it nor kept in its queue
C16_FailedChannelDropsFrames ==
    [][\A s \in DOMAIN dg :
          dg[s].readyState = "CLOSED" =>
              /\ dg'[s].sent = dg[s].sent
              /\ dg'[s].audioQueue = dg[s].audioQueue]_vars

\* C17: a recognizer socket that closes or fails changes nothing but the
\* socket: the transports, the registered sessions, the aggregators, the rows
\* and the transcript clients are as before
C17_FailureChangesOnlyChannel ==
    [][\A s \in DOMAIN dg :
          (dg[s].readyState # "CLOSED" /\ dg'[s].readyState = "CLOSED") =>
              /\ UNCHANGED <<ws, connections, conversationBuffers, supabase,
                             transcriptClients, client>>
              /\ \A t \in DOMAIN dg : t # s => dg'[t] = dg[t]
              /\ dg'[s] = [dg[s] EXCEPT !.readyState = "CLOSED"]]_vars

\* a session whose recognizer socket failed before opening is still
\* registered on an open transport and has taken two media messages
C17_Witness ==
    \E s \in DOMAIN dg :
        /\ dg[s].readyState = "CLOSED"
        /\ ~dg[s].isDeepgramOpen
        /\ ~dg[s].stopped
        /\ ws[dg[s].owner].state = "OPEN"
        /\ ws[dg[s].owner].deepgramConnection = s
        /\ \E key \in DOMAIN connections : connections[key].deepgramConnection = s
        /\ Len(dg[s].recv) = 2

\* C19: the recognizer connection of a session that has handled a stop
\* message, or whose transport has closed, is sent no audio frame afterwards
C19_NoAudioAfterStop ==
    [][\A s \in DOMAIN dg : dg[s].stopped => dg'[s].sent = dg[s].sent]_vars

\* the session that made recognizer connection s is registered
Registered(s) ==
    \E key \in DOMAIN connections : connections[key].deepgramConnection = s

SessionsOf(c) == { key \in DOMAIN connections : connections[key].callSid = c }

TwoTrackCall(c) ==
    /\ ws["w1"].callSid = c
    /\ ws["w2"].callSid = c
    /\ ws["w1"].trackType # ws["w2"].trackType

\* C3 (its flush half): once both tracks of a two-track call have stopped, the
\* pending buffer has been emitted and the aggregator removed, and no more
\* than one flush has emitted a turn since the call's last start message.
C3_ExactlyOneFlush ==
    \A c \in CallSids :
        (TwoTrackCall(c) /\ SessionsOf(c) = {}) =>
            /\ flushEmits[c] <= 1
            /\ c \notin DOMAIN conversationBuffers

\* C6: no two recognizer connections made for the same (callSid, track) are
\* open or connecting at the same time.
C6_OneLiveConnectionPerKey ==
    \A s1, s2 \in DOMAIN dg :
        (/\ s1 # s2
         /\ dg[s1].callSid = dg[s2].callSid
         /\ dg[s1].trackType = dg[s2].trackType
         /\ dg[s1].readyState \in {"CONNECTING", "OPEN"})
            => dg[s2].readyState \notin {"CONNECTING", "OPEN"}

\* C7: a final result delivered by the recognizer connection of a session
\* that has been stopped or closed changes neither the aggregators nor the
\* rows emitted.
C7_LateResultsDiscarded ==
    [][\A s \in DOMAIN dg :
          (dg[s].stopped /\ dg'[s].finals > dg[s].finals) =>
              UNCHANGED <<conversationBuffers, supabase>>]_vars

\* C8: the recognizer connection of a session that has been stopped or whose
\* transport has closed is never open.
C8_StoppedConnectionNotOpen ==
    \A s \in DOMAIN dg : dg[s].stopped => dg[s].readyState # "OPEN"


\* C28: while the session that owns a registry entry is live (its transport
\* is open, still uses the entry's recognizer connection and handles neither
\* a stop nor a close in the step), no step removes the entry, calls close on
\* its recognizer connection or removes the call's aggregator
C28_ReplacementKept ==
    [][\A key \in DOMAIN connections :
          LET s == connections[key].deepgramConnection
              c == connections[key].callSid
          IN  (/\ ws'[dg[s].owner].state = "OPEN"
               /\ ws[dg[s].owner].deepgramConnection = s
               /\ ~dg'[s].stopped)
              => /\ key \in DOMAIN connections'
                 /\ dg[s].readyState = "OPEN" => dg'[s].readyState # "CLOSING"
                 /\ c \in DOMAIN conversationBuffers => c \in DOMAIN conversationBuffers']_vars

C13_LastTrackIffNoSessionOfCall ==
    [][\A c \in CallSids :
          (/\ SessionsOf(c)' # SessionsOf(c)
           /\ SessionsOf(c)' \subseteq SessionsOf(c)
           /\ c \in DOMAIN conversationBuffers)
          => ((c \notin DOMAIN conversationBuffers') <=> (SessionsOf(c)' = {}))]_vars

\* C15: when the last session of a call ends while the call's aggregator
\* holds text that is not blank, that text is emitted as one turn of its
\* speaker and no aggregator of the call remains
C15_PendingTurnEmittedAtLastClose ==
    [][\A c \in CallSids :
          (/\ SessionsOf(c) # {}
           /\ SessionsOf(c)' = {}
           /\ c \in DOMAIN conversationBuffers
           /\ trim(conversationBuffers[c].buffer) # <<>>)
          => /\ c \notin DOMAIN conversationBuffers'
             /\ supabase' = saveTranscriptToSupabase(supabase, c,
                                conversationBuffers[c].currentSpeaker,
                                conversationBuffers[c].buffer)]_vars

\* C18: malformed messages leave the sessions and the registry as they
\* were: no recognizer connection and no entry of connections comes from a
\* start message that has no call SID
C18_MalformedLeavesNoSession ==
    /\ \A s \in DOMAIN dg : dg[s].callSid # UNDEFINED
    /\ \A key \in DOMAIN connections : connections[key].callSid # UNDEFINED
    /\ \A w \in Conns : ws[w].callSid # UNDEFINED

----------------------------------------------------------------------------
(* Claims about the broadcast, under SpecClients *)

\* C9: a broadcast to a call delivers the event to every registered client
\* whose socket is open and whose send does not throw, whichever other clients
\* of the call fail
C9_HealthyClientsReceive ==
    [][nPublish' = nPublish + 1 =>
          \A k \in Clients :
              (/\ lastPublish'.callSid \in DOMAIN transcriptClients
               /\ k \in Members(transcriptClients[lastPublish'.callSid])
               /\ client[k].readyState = "OPEN"
               /\ k \notin lastPublish'.throwing)
              => client'[k].inbox = Append(client[k].inbox, lastPublish'.message)]_vars

\* a broadcast to three registered clients whose first client's send threw,
\* and the two after it received the event
C9_Witness ==
    /\ lastPublish.callSid \in DOMAIN transcriptClients
    /\ LET set == transcriptClients[lastPublish.callSid]
       IN  /\ Len(set) = 3
           /\ lastPublish.throwing = {set[1]}
           /\ \A i \in {1, 2, 3} : client[set[i]].readyState = "OPEN"
           /\ client[set[1]].inbox = <<>>
           /\ client[set[2]].inbox = <<lastPublish.message>>
           /\ client[set[3]].inbox = <<lastPublish.message>>

\* C10: a broadcast removes from the call's set of clients every client it
\* failed to deliver to, because the socket was not open or the send threw
C10_FailedClientRemoved ==
    [][nPublish' = nPublish + 1 =>
          \A k \in Clients :
              (/\ lastPublish'.callSid \in DOMAIN transcriptClients
               /\ k \in Members(transcriptClients[lastPublish'.callSid])
               /\ (client[k].readyState # "OPEN" \/ k \in lastPublish'.throwing))
              => ~(/\ lastPublish'.callSid \in DOMAIN transcriptClients'
                   /\ k \in Members(transcriptClients'[lastPublish'.callSid]))]_vars

\* the other clients of the call stay registered after a failed delivery
C10_OthersKept ==
    [][nPublish' = nPublish + 1 => transcriptClients' = transcriptClients]_vars

\* C11: a client is sent events only by a broadcast to a call it is
\* registered for at that moment: registering delivers nothing that was
\* broadcast before, and a broadcast reaches no client outside the call's set
C11_NoReplay ==
    [][\A k \in Clients :
          client'[k].inbox # client[k].inbox =>
              /\ nPublish' = nPublish + 1
              /\ lastPublish'.callSid \in DOMAIN transcriptClients
              /\ k \in Members(transcriptClients[lastPublish'.callSid])
              /\ client'[k].inbox = Append(client[k].inbox, lastPublish'.message)]_vars

\* one broadcast whose sends all succeeded reached the first client of the
\* call and not the second, which is open: it registered after the broadcast
C11_Witness ==
    /\ nPublish = 1
    /\ lastPublish.throwing = {}
    /\ lastPublish.callSid \in DOMAIN transcriptClients
    /\ LET set == transcriptClients[lastPublish.callSid]
       IN  /\ Len(set) = 2
           /\ client[set[1]].inbox = <<lastPublish.message>>
           /\ client[set[2]].readyState = "OPEN"
           /\ client[set[2]].inbox = <<>>

\* C20: with no session registered for any call, an open client that has
\* registered for a call is in the call's set, and a broadcast to the call
\* gives the event to every such client whose send does not throw
C20_RegisterWithoutSession ==
    [][/\ \A k \in Clients : \A c \in CallSids :
            (/\ client'[k].readyState = "OPEN"
             /\ client'[k].clientCallSid = c
             /\ SessionsOf(c)' = {})
            => /\ c \in DOMAIN transcriptClients'
               /\ k \in Members(transcriptClients'[c])
       /\ nPublish' = nPublish + 1 =>
            \A k \in Clients :
                (/\ client[k].readyState = "OPEN"
                 /\ client[k].clientCallSid = lastPublish'.callSid
                 /\ SessionsOf(lastPublish'.callSid) = {}
                 /\ k \notin lastPublish'.throwing)
                => client'[k].inbox = Append(client[k].inbox, lastPublish'.message)]_vars

\* no transport has connected, one client registered for a call and the one
\* broadcast to that call reached it
C20_Witness ==
    /\ dg = <<>>
    /\ connections = EmptyMap
    /\ nPublish = 1
    /\ lastPublish.callSid \in DOMAIN transcriptClients
    /\ LET set == transcriptClients[lastPublish.callSid]
       IN  /\ Len(set) = 1
           /\ client[set[1]].clientCallSid = lastPublish.callSid
           /\ client[set[1]].inbox = <<lastPublish.message>>

\* C21: the subscriber map holds no call whose set is empty
C21_NoEmptySet ==
    \A callSid \in DOMAIN transcriptClients : Len(transcriptClients[callSid]) > 0

\* the only client of a call has closed and the call's entry is gone, while
\* another call still has its client
C21_Witness ==
    /\ \E k \in Clients :
          /\ client[k].readyState = "CLOSED"
          /\ client[k].clientCallSid # NULL
          /\ client[k].clientCallSid \notin DOMAIN transcriptClients
    /\ DOMAIN transcriptClients # {}

\* C29: a client whose connection has closed is a member of no call's set
C29_ClosedClientInNoSet ==
    \A k \in Clients : client[k].readyState = "CLOSED" =>
        \A callSid \in DOMAIN transcriptClients :
            k \notin Members(transcriptClients[callSid])

InterimForwarded ==
    \A c \in CallSids, label \in Speakers, k \in Clients :
        (/\ c \in DOMAIN transcriptClients
         /\ k \in Members(transcriptClients[c])
         /\ client[k].readyState = "OPEN")
        => onResultsCast(transcriptClients, client, c, label,
                         [transcript |-> <<"a">>, is_final |-> FALSE], {})[k].inbox
             = Append(client[k].inbox, transcriptMessage(label, <<"a">>, FALSE))

----------------------------------------------------------------------------
(* Claims about the end of a call, under SpecCast *)

\* C5: when the last registered track of a call ends, by a stop message or by
\* the transport closing, and no send throws, every client of the call whose
\* socket is open is sent call_ended
C5_LastTrackEndNotifies ==
    [][\A c \in CallSids :
          (SessionsOf(c) # {} /\ SessionsOf(c)' = {} /\ thrown' = {})
          => \A k \in Clients :
                 (/\ c \in DOMAIN transcriptClients
                  /\ k \in Members(transcriptClients[c])
                  /\ client[k].readyState = "OPEN")
                 => client'[k].inbox = Append(client[k].inbox, callEndedMessage(c))]_vars

\* C12: a stop branch that sends call_ended for a call sends it to every
\* client of the call whose socket is open and then removes the call's set
C12_CallEndedThenRemoved ==
    [][\A c \in CallSids :
          (\E k \in Clients :
               client'[k].inbox = Append(client[k].inbox, callEndedMessage(c)))
          => /\ \A k \in Members(transcriptClients[c]) :
                    client[k].readyState = "OPEN" =>
                        client'[k].inbox = Append(client[k].inbox, callEndedMessage(c))
             /\ c \notin DOMAIN transcriptClients']_vars

----------------------------------------------------------------------------
(* Claims about part_000, under SpecEarly *)

EarlyStopLeavesClients ==
    [][(\E w \in Conns : NotStarted(w) /\ StopBranchCast(w, {})) =>
          /\ srvVars' = srvVars
          /\ castVars' = castVars]_vars

----------------------------------------------------------------------------
(* Claims about src/server.js, under SpecRelay *)

\* C25: every media payload the transport socket has emitted since the
\* connection was accepted has been given to assemblyWs or is queued, in
\* arrival order, and once assemblyWs has opened none is left in the queue
C25_NoFrameDropped ==
    /\ relay.sent \o relay.audioQueue = relay.arrived
    /\ relay.assemblyWs = "OPEN" => relay.audioQueue = <<>>

----------------------------------------------------------------------------
(* Claims about part_002, under SpecTs *)

\* C26: once the recognizer socket a transport connection made is open, it
\* has been given every audio message that connection received, in order
C26_EarlyAudioForwarded ==
    \A s \in DOMAIN tdg :
        tdg[s].readyState = "OPEN" => tdg[s].sent = tws[tdg[s].owner].recv

\* C27: for a call whose session's transport is open, a result with
\* non-blank text is appended to the history and sent as 'transcript' if the
\* recognizer marked it final, and otherwise sent as 'interim' and not
\* appended
C27_FinalIffMarkedFinal ==
    \A s \in DOMAIN tdg : \A data \in TsResults :
        LET callSid == tdg[s].callSid
            session == sessionOf(callSessions, callSid)
        IN  (/\ tdg[s].readyState \in {"OPEN", "CLOSING"}
             /\ session # NoSession
             /\ tws[sessions[session].ws].readyState = "OPEN"
             /\ trim(data.transcript) # <<>>)
            => LET r == handleDeepgramResponse(callSessions, sessions, tws, callSid, data)
                   t == sessions[session].ws
                   sentEvent == r.tw[t].inbox[Len(r.tw[t].inbox)]
               IN  /\ Len(r.tw[t].inbox) = Len(tws[t].inbox) + 1
                   /\ sentEvent.type = IF data.is_final THEN "transcript" ELSE "interim"
                   /\ r.ss[session].transcriptBuffer =
                         IF data.is_final
                         THEN Append(sessions[session].transcriptBuffer,
                                     [transcript |-> trim(data.transcript),
                                      isInterim |-> FALSE])
                         ELSE sessions[session].transcriptBuffer

=============================================================================
